---------------------------- MODULE Spec2Model ----------------------------
(***************************************************************************)
(* UVCCapture (jni/uvccap.c): the life of one capture run of main():       *)
(* open_video_device, init_video_device (crop, format, init_buffer),       *)
(* do_capture (start_capture, the select/read_frame loop, stop_capture)    *)
(* and close_video_device.  The program is single threaded; every system   *)
(* call is one step whose outcome (success, or failure with an errno) is   *)
(* chosen by the environment.                                              *)
(***************************************************************************)
EXTENDS Integers, FiniteSets, Sequences, TLC

(***************************************************************************)
(* Bounds of the model.                                                    *)
(***************************************************************************)
\* the device grants 0..MaxGrant buffers to VIDIOC_REQBUFS
MaxGrant == 3
\* args.cap_count (-n) ranges over -1..MaxFrames
MaxFrames == 2
\* the device enumerates 0..MaxFmtDesc pixel formats before EINVAL
MaxFmtDesc == 1
\* close_video_device's count of close() calls saturates here
MaxCloseCalls == 3
MaxFormatIndex == 10

(***************************************************************************)
(* enum ERRORS (uvccap.c:72-93).                                           *)
(***************************************************************************)
NOERROR == 0
INVALID_ARGUMENTS == 100
INVALID_FORMAT_ARGUMENTS == 101
VIDEO_DEVICE_BUSY == 102
VIDEO_DEVICE_OPEN_FAILED == 103
VIDEO_DEVICE_NOCAPS == 104
VIDEO_DEVICE_NOCROPCAPS == 105
VIDEO_DEVICE_CAPTURE_NOT_SUPPORTED == 106
VIDEO_DEVICE_CROPPING_FAILED == 107
VIDEO_DEVICE_ENUM_FORMAT_FAILED == 108
VIDEO_DEVICE_QUERY_BUFFER_FAILED == 109
VIDEO_DEVICE_STREAMING_FAILED == 110
IO_METHOD_NOT_SUPPORTED == 111
IO_ERROR == 112
IO_FILE_NOT_CREATED == 113
MEMORY_MAPPING_FAILED == 114
MEMORY_QUEUEING_FAILED == 115
MEMORY_DEQUEUEING_FAILED == 116
INSUFFICIENT_MEMORY == 117
NOT_PERMITTED == 118

(***************************************************************************)
(* Program constants.                                                      *)
(***************************************************************************)
DEF_CAPTURE_WIDTH == 640
DEF_CAPTURE_HEIGHT == 480
DEF_PIXEL_FORMAT == 3
NUMBER_OF_SUPPORTED_PIXEL_FORMATS == 8
\* req.count = 2 in init_buffer
REQ_COUNT == 2
\* if (count < 2) in init_buffer
MIN_BUFFERS == 2
\* for (retry = 0; retry < 5; ++retry) in start_capture
MAX_RETRY == 5
\* the descriptor open() returns (any value >= 0; stdin/out/err hold 0..2)
DEV_FD == 3

\* PIXEL_FORMATS[NUMBER_OF_SUPPORTED_PIXEL_FORMATS + 1], indexed from 0;
\* the four-byte codes are kept as their names, the sentinel 0 as "0"
PIXEL_FORMATS ==
    [k \in 0..NUMBER_OF_SUPPORTED_PIXEL_FORMATS |->
        CASE k = 0 -> "RGB565"
          [] k = 1 -> "RGB32"
          [] k = 2 -> "BGR32"
          [] k = 3 -> "YUYV"
          [] k = 4 -> "UYVY"
          [] k = 5 -> "YUV420"
          [] k = 6 -> "YUV410"
          [] k = 7 -> "YUV422P"
          [] OTHER -> "0"]

\* what a read before the first element of PIXEL_FORMATS can yield: the
\* word in front of the table is whatever the linker placed there
OutOfTableWords == {"0", "YUYV", "garbage"}

\* the index to_v4l2_pixel_format reads PIXEL_FORMATS at: only
\* format >= NUMBER_OF_SUPPORTED_PIXEL_FORMATS is replaced by the default
table_index(format) ==
    IF format >= NUMBER_OF_SUPPORTED_PIXEL_FORMATS
    THEN DEF_PIXEL_FORMAT
    ELSE format

\* the fallback taken from the end of the table: its terminating 0 entry
to_v4l2_pixel_format_mut(format) ==
    IF format >= NUMBER_OF_SUPPORTED_PIXEL_FORMATS
    THEN {PIXEL_FORMATS[NUMBER_OF_SUPPORTED_PIXEL_FORMATS]}
    ELSE IF format >= 0 THEN {PIXEL_FORMATS[format]}
         ELSE OutOfTableWords

\* to_v4l2_pixel_format(format): the set of values the call can return.
\* A negative format passes the >= test and indexes in front of the table
\* (undefined behaviour: any word).
to_v4l2_pixel_format(format) ==
    IF table_index(format) \in DOMAIN PIXEL_FORMATS
    THEN {PIXEL_FORMATS[table_index(format)]}
    ELSE OutOfTableWords

(***************************************************************************)
(* Input domains.                                                          *)
(***************************************************************************)
\* -f values: in range, the default, negative, and rejected by parse_args
PixelFormatArgs == {-1, DEF_PIXEL_FORMAT, NUMBER_OF_SUPPORTED_PIXEL_FORMATS}
CapCounts == -1..MaxFrames
\* the int values to_v4l2_pixel_format is applied to when init_video_device
\* is taken on its own: below, inside and above the table
FormatIndexes == (0 - 2)..MaxFormatIndex
\* -w values; the device may adjust a request to any of these
Widths == {320, DEF_CAPTURE_WIDTH}

\* buf.index before any dequeue
NoIdx == 0 - 1

VARIABLES
    pc,             \* position of the program
    args,           \* app_args_t: pixel_format, cap_width, cap_height, cap_count
    ret,            \* main's ret (the exit code once pc = "done")
    fd,             \* dev->fd
    format,         \* dev->format.fmt.pix: pixelformat, width, height
    buffers,        \* dev->buffers: "NULL" or "table" (the malloc'ed table)
    buffer_count,   \* dev->buffer_count
    buf_ptr,        \* the table: index -> addr ("uninit", "MAP_FAILED", "mapped", "NULL")
    count,          \* init_buffer / start_capture: count
    i,              \* loop index of open_video_device, init_buffer, start_capture, close_video_device
    retry,          \* start_capture: retry
    result,         \* result of init_buffer / start_capture / do_capture
    cap_i,          \* do_capture: i, the captured-frame counter
    n,              \* do_capture: n, select's return value
    errno,          \* errno left by select
    isset,          \* FD_ISSET(dev->fd, &rfds) after select
    buf_index,      \* read_frame: buf.index of the dequeued buffer
    rf_result,      \* read_frame: result
    \* the kernel's side
    fdstate,        \* the descriptor: "none", "open", "released"
    devfmt,         \* the device's current format (what VIDIOC_G_FMT reports)
    mapped,         \* indices whose mapping is live
    queued,         \* indices the driver owns (enqueued)
    streaming,      \* TRUE between a successful STREAMON and STREAMOFF
    \* history of the run
    everMapped,     \* indices whose mmap succeeded
    unmapCount,     \* index -> number of munmap calls on its mapping
    freeCount,      \* number of free() calls on the buffer table
    granted,        \* the count a successful VIDIOC_REQBUFS granted (NoIdx: none)
    einval_at,      \* the index VIDIOC_QUERYBUF answered EINVAL for (NoIdx: none)
    attempts,       \* start_capture: VIDIOC_QBUF calls issued for the current buffer
    qbufCalls,      \* TRUE once any VIDIOC_QBUF was issued
    dqCount,        \* number of successful VIDIOC_DQBUF
    owned,          \* indices dequeued and not (successfully) enqueued again
    requeue_pending,\* a buffer was dequeued and no VIDIOC_QBUF was issued for it yet
    requeue_failed, \* a re-enqueue in read_frame failed
    wait_failed,    \* the capture loop was left on a select error other than a timeout
    streamOnCalls,  \* number of VIDIOC_STREAMON calls
    streamOffCalls, \* number of VIDIOC_STREAMOFF calls
    cropcap_errno,  \* how VIDIOC_CROPCAP ended: "none" before the call, "ok" or its errno
    sfmt_errno,     \* how VIDIOC_S_FMT ended: "none" before the call, "ok" or its errno
    sfmt_request,   \* the format init_video_device handed to VIDIOC_S_FMT
    reqbufs_errno,  \* how VIDIOC_REQBUFS ended: "none" before the call, "ok" or its errno
    last_qbuf_errno,\* how start_capture's latest VIDIOC_QBUF ended
    files,          \* the indices of the frame files read_frame created
    streamOnOk,     \* VIDIOC_STREAMON succeeded
    closeCalls,     \* number of close(dev->fd) calls (saturating at MaxCloseCalls)
    closeRuns       \* number of close_video_device invocations

mainVars  == <<args, ret>>
devVars   == <<fd, format, buffers, buffer_count, buf_ptr>>
locVars   == <<count, i, retry, result>>
capVars   == <<cap_i, n, errno, isset, buf_index, rf_result>>
kernVars  == <<fdstate, devfmt, mapped, queued, streaming>>
memHist   == <<everMapped, unmapCount, freeCount, granted, einval_at>>
qHist     == <<attempts, qbufCalls, dqCount, owned, requeue_pending,
               requeue_failed, wait_failed>>
strHist   == <<streamOnCalls, streamOffCalls>>
closeHist == <<closeCalls, closeRuns>>
fmtHist   == <<cropcap_errno, sfmt_errno, sfmt_request, reqbufs_errno>>
capHist   == <<last_qbuf_errno, files, streamOnOk>>
vars == <<pc, mainVars, devVars, locVars, capVars, kernVars, memHist, qHist,
          strHist, closeHist, fmtHist, capHist>>

NoFormat == [pixelformat |-> "0", width |-> 0, height |-> 0]
\* the format the driver holds before any VIDIOC_S_FMT
DriverDefaultFormat ==
    [pixelformat |-> "YUYV", width |-> 320, height |-> DEF_CAPTURE_HEIGHT]
EmptyTable == [k \in {} |-> "uninit"]

Init ==
    /\ pc = "parse_args"
    /\ args \in [pixel_format : PixelFormatArgs,
                 cap_width    : Widths,
                 cap_height   : {DEF_CAPTURE_HEIGHT},
                 cap_count    : CapCounts]
    /\ ret = NOERROR
    /\ fd = -1
    /\ format = NoFormat
    /\ buffers = "NULL"
    /\ buffer_count = 0
    /\ buf_ptr = EmptyTable
    /\ count = 0
    /\ i = 0
    /\ retry = 0
    /\ result = NOERROR
    /\ cap_i = 0
    /\ n = 0
    /\ errno = "0"
    /\ isset = FALSE
    /\ buf_index = NoIdx
    /\ rf_result = NOERROR
    /\ fdstate = "none"
    /\ devfmt = DriverDefaultFormat
    /\ mapped = {}
    /\ queued = {}
    /\ streaming = FALSE
    /\ everMapped = {}
    /\ unmapCount = [k \in 0..(MaxGrant - 1) |-> 0]
    /\ freeCount = 0
    /\ granted = NoIdx
    /\ einval_at = NoIdx
    /\ attempts = 0
    /\ qbufCalls = FALSE
    /\ dqCount = 0
    /\ owned = {}
    /\ requeue_pending = FALSE
    /\ requeue_failed = FALSE
    /\ wait_failed = FALSE
    /\ streamOnCalls = 0
    /\ streamOffCalls = 0
    /\ closeCalls = 0
    /\ closeRuns = 0
    /\ cropcap_errno = "none"
    /\ sfmt_errno = "none"
    /\ sfmt_request = NoFormat
    /\ reqbufs_errno = "none"
    /\ last_qbuf_errno = "none"
    /\ files = {}
    /\ streamOnOk = FALSE

(***************************************************************************)
(* main (uvccap.c:169-200) and open_video_device (uvccap.c:310-374).       *)
(* main returns ret at once when open_video_device fails: those paths go   *)
(* to "done" without close_video_device.                                   *)
(***************************************************************************)

\* close(fd) on Linux (Android's kernel) releases the descriptor whatever it
\* returns; on a descriptor already released it fails with EBADF.
close_returns(state) == IF state = "open" THEN {0, -1} ELSE {-1}

Bump(c) == IF c < MaxCloseCalls THEN c + 1 ELSE c

\* parse_args: -f rejects format >= NUMBER_OF_SUPPORTED_PIXEL_FORMATS only
parse_args_rejects(a) == a.pixel_format >= NUMBER_OF_SUPPORTED_PIXEL_FORMATS

main_parse_args ==
    /\ pc = "parse_args"
    /\ IF parse_args_rejects(args)
       THEN /\ ret' = INVALID_ARGUMENTS
            /\ pc' = "done"
       ELSE /\ ret' = ret
            /\ pc' = "ovd_open"
    /\ UNCHANGED <<args, devVars, locVars, capVars, kernVars, memHist, qHist,
                   strHist, closeHist, fmtHist, capHist>>

\* dev->fd = open(args->device, O_RDONLY)
open_errno_code(e) ==
    CASE e = "EBUSY" -> VIDEO_DEVICE_BUSY
      [] e = "EPERM" -> NOT_PERMITTED
      [] OTHER       -> VIDEO_DEVICE_OPEN_FAILED

ovd_open ==
    /\ pc = "ovd_open"
    /\ \E e \in {"ok", "EBUSY", "EPERM", "ENOENT"} :
         IF e = "ok"
         THEN /\ fd' = DEV_FD
              /\ fdstate' = "open"
              /\ ret' = ret
              /\ pc' = "ovd_querycap"
         ELSE /\ fd' = -1
              /\ fdstate' = fdstate
              /\ ret' = open_errno_code(e)
              /\ pc' = "done"
    /\ UNCHANGED <<args, format, buffers, buffer_count, buf_ptr, locVars, capVars,
                   devfmt, mapped, queued, streaming, memHist, qHist, strHist,
                   closeHist, fmtHist, capHist>>

\* VIDIOC_QUERYCAP and the V4L2_CAP_VIDEO_CAPTURE test: both failure paths
\* close(dev->fd) once (result ignored) and set dev->fd = -1
ovd_querycap ==
    /\ pc = "ovd_querycap"
    /\ \E out \in {"capture", "nocapture", "fail"} :
         IF out = "capture"
         THEN /\ pc' = "ovd_cropcap"
              /\ UNCHANGED <<ret, fd, fdstate, closeCalls>>
         ELSE /\ fdstate' = "released"
              /\ closeCalls' = Bump(closeCalls)
              /\ fd' = -1
              /\ ret' = IF out = "fail" THEN VIDEO_DEVICE_NOCAPS
                        ELSE VIDEO_DEVICE_CAPTURE_NOT_SUPPORTED
              /\ pc' = "done"
    /\ UNCHANGED <<args, format, buffers, buffer_count, buf_ptr, locVars, capVars,
                   devfmt, mapped, queued, streaming, memHist, qHist, strHist,
                   closeRuns, fmtHist, capHist>>

\* VIDIOC_CROPCAP: any failure returns VIDEO_DEVICE_NOCROPCAPS, dev->fd kept
ovd_cropcap ==
    /\ pc = "ovd_cropcap"
    /\ \E e \in {"ok", "EINVAL", "EIO"} :
         /\ cropcap_errno' = e
         /\ IF e = "ok"
            THEN /\ pc' = "ovd_enum"
                 /\ i' = 0
                 /\ ret' = ret
            ELSE /\ pc' = "done"
                 /\ i' = i
                 /\ ret' = VIDEO_DEVICE_NOCROPCAPS
    /\ UNCHANGED <<args, devVars, count, retry, result, capVars, kernVars,
                   memHist, qHist, strHist, closeHist, sfmt_errno,
                   sfmt_request, reqbufs_errno, capHist>>

\* for (i = 0; ; ++i) VIDIOC_ENUM_FMT: EINVAL ends the enumeration, another
\* errno returns VIDEO_DEVICE_ENUM_FORMAT_FAILED, dev->fd kept
ovd_enum ==
    /\ pc = "ovd_enum"
    /\ \E e \in {"ok", "EINVAL", "EIO"} :
         CASE e = "ok" ->
                /\ i < MaxFmtDesc
                /\ i' = i + 1
                /\ pc' = pc
                /\ ret' = ret
           [] e = "EINVAL" ->
                /\ i' = 0
                /\ ret' = NOERROR
                /\ pc' = "ivd_crop"
           [] OTHER ->
                /\ i' = 0
                /\ ret' = VIDEO_DEVICE_ENUM_FORMAT_FAILED
                /\ pc' = "done"
    /\ UNCHANGED <<args, devVars, count, retry, result, capVars, kernVars,
                   memHist, qHist, strHist, closeHist, fmtHist, capHist>>

(***************************************************************************)
(* init_video_device (uvccap.c:465-508).  A failure returns to main, which *)
(* calls close_video_device ("cvd_enter").                                 *)
(***************************************************************************)

\* VIDIOC_S_CROP: EINVAL is only warned about
ivd_crop ==
    /\ pc = "ivd_crop"
    /\ \E e \in {"ok", "EINVAL", "EIO"} :
         IF e \in {"ok", "EINVAL"}
         THEN /\ pc' = "ivd_sfmt"
              /\ ret' = ret
         ELSE /\ pc' = "cvd_enter"
              /\ ret' = VIDEO_DEVICE_CROPPING_FAILED
    /\ UNCHANGED <<args, devVars, locVars, capVars, kernVars, memHist, qHist,
                   strHist, closeHist, fmtHist, capHist>>

\* the formats a driver may settle on for a request: it keeps a pixel code
\* it knows and may adjust the width
DeviceAdjust(req) ==
    { [pixelformat |-> p, width |-> w, height |-> req.height] :
        p \in (IF req.pixelformat \in {"0", "garbage"} THEN {"YUYV"}
               ELSE {req.pixelformat}),
        w \in Widths }

\* what init_video_device does with a failed VIDIOC_S_FMT: the code it
\* returns, or NOERROR when it goes on
sfmt_errno_code(e) ==
    CASE e = "EBUSY"  -> VIDEO_DEVICE_BUSY
      [] e = "EINVAL" -> INVALID_FORMAT_ARGUMENTS
      [] OTHER        -> NOERROR

\* dev->format is filled from args and handed to VIDIOC_S_FMT, which writes
\* the format the driver settled on back into it
ivd_sfmt ==
    /\ pc = "ivd_sfmt"
    /\ \E pf \in to_v4l2_pixel_format(args.pixel_format),
          e \in {"ok", "EBUSY", "EINVAL", "EIO"} :
         LET req == [pixelformat |-> pf, width |-> args.cap_width,
                     height |-> args.cap_height]
         IN  /\ sfmt_errno' = e
             /\ sfmt_request' = req
             /\ IF e = "ok"
                THEN \E adj \in DeviceAdjust(req) :
                       /\ format' = adj
                       /\ devfmt' = adj
                       /\ ret' = ret
                       /\ pc' = "ivd_gfmt"
                ELSE /\ format' = req
                     /\ devfmt' = devfmt
                     /\ ret' = IF sfmt_errno_code(e) # NOERROR
                               THEN sfmt_errno_code(e) ELSE ret
                     /\ pc' = IF sfmt_errno_code(e) # NOERROR
                              THEN "cvd_enter" ELSE "ivd_gfmt"
    /\ UNCHANGED <<args, fd, buffers, buffer_count, buf_ptr, locVars, capVars,
                   fdstate, mapped, queued, streaming, memHist, qHist, strHist,
                   closeHist, cropcap_errno, reqbufs_errno, capHist>>

\* VIDIOC_G_FMT into the local fmt, which is only printed; then
\* init_buffer is entered
ivd_gfmt ==
    /\ pc = "ivd_gfmt"
    /\ pc' = "ib_reqbufs"
    /\ UNCHANGED <<mainVars, devVars, locVars, capVars, kernVars, memHist,
                   qHist, strHist, closeHist, fmtHist, capHist>>

(***************************************************************************)
(* init_buffer (uvccap.c:517-601).                                         *)
(***************************************************************************)

\* what init_buffer does with a failed VIDIOC_REQBUFS
reqbufs_errno_code(e) ==
    CASE e = "EBUSY"  -> VIDEO_DEVICE_BUSY
      [] e = "EINVAL" -> IO_METHOD_NOT_SUPPORTED
      [] OTHER        -> NOERROR

\* the test off by one: a single granted buffer passes
insufficient_mut(c) == c < MIN_BUFFERS - 1

\* if (count < 2)
insufficient(c) == c < MIN_BUFFERS

\* dev->buffers = NULL; dev->buffer_count = 0; VIDIOC_REQBUFS with
\* req.count = 2; count = req.count; the count < 2 test
ib_reqbufs ==
    /\ pc = "ib_reqbufs"
    /\ buffers' = "NULL"
    /\ buffer_count' = 0
    /\ \E e \in {"ok", "EBUSY", "EINVAL", "EIO"}, g \in 0..MaxGrant :
         \* a failed request leaves req.count as the program set it
         /\ (e # "ok") => (g = REQ_COUNT)
         /\ granted' = IF e = "ok" THEN g ELSE granted
         /\ reqbufs_errno' = e
         /\ IF reqbufs_errno_code(e) # NOERROR
            THEN /\ ret' = reqbufs_errno_code(e)
                 /\ count' = 0
                 /\ pc' = "cvd_enter"
            ELSE IF insufficient(g)
                 THEN /\ ret' = INSUFFICIENT_MEMORY
                      /\ count' = 0
                      /\ pc' = "cvd_enter"
                 ELSE /\ ret' = ret
                      /\ count' = g
                      /\ pc' = "ib_malloc"
    /\ UNCHANGED <<args, fd, format, buf_ptr, i, retry, result, capVars,
                   kernVars, everMapped, unmapCount, freeCount, einval_at,
                   qHist, strHist, closeHist, cropcap_errno, sfmt_errno,
                   sfmt_request, capHist>>

\* buf_ptr = malloc(sizeof(video_buf_t) * count): entries uninitialized
ib_malloc ==
    /\ pc = "ib_malloc"
    /\ \E ok \in BOOLEAN :
         IF ok
         THEN /\ buf_ptr' = [k \in 0..(count - 1) |-> "uninit"]
              /\ i' = 0
              /\ count' = count
              /\ ret' = ret
              /\ pc' = "ib_query"
         ELSE /\ buf_ptr' = buf_ptr
              /\ i' = i
              /\ count' = 0
              /\ ret' = INSUFFICIENT_MEMORY
              /\ pc' = "cvd_enter"
    /\ UNCHANGED <<args, fd, format, buffers, buffer_count, retry, result,
                   capVars, kernVars, memHist, qHist, strHist, closeHist, fmtHist, capHist>>

\* what the mapping loop does with a failed VIDIOC_QUERYBUF: EINVAL breaks
\* with result untouched
querybuf_errno_code(e, res) ==
    IF e = "EINVAL" THEN res ELSE VIDEO_DEVICE_QUERY_BUFFER_FAILED

\* loop body, first half (i < count): buf_ptr[i].addr = MAP_FAILED, then
\* VIDIOC_QUERYBUF
ib_query ==
    /\ pc = "ib_query"
    /\ i < count
    /\ buf_ptr' = [buf_ptr EXCEPT ![i] = "MAP_FAILED"]
    /\ \E e \in {"ok", "EINVAL", "EIO"} :
         IF e = "ok"
         THEN /\ pc' = "ib_mmap"
              /\ result' = result
              /\ einval_at' = einval_at
         ELSE /\ pc' = "ib_finish"
              /\ result' = querybuf_errno_code(e, result)
              /\ einval_at' = IF e = "EINVAL" THEN i ELSE einval_at
    /\ UNCHANGED <<mainVars, fd, format, buffers, buffer_count, count, i,
                   retry, capVars, kernVars, everMapped, unmapCount,
                   freeCount, granted, qHist, strHist, closeHist, fmtHist, capHist>>

\* loop body, second half: mmap; on success ++i and the loop test
ib_mmap ==
    /\ pc = "ib_mmap"
    /\ \E ok \in BOOLEAN :
         IF ok
         THEN /\ buf_ptr' = [buf_ptr EXCEPT ![i] = "mapped"]
              /\ mapped' = mapped \cup {i}
              /\ everMapped' = everMapped \cup {i}
              /\ i' = i + 1
              /\ result' = result
              /\ pc' = IF i + 1 < count THEN "ib_query" ELSE "ib_finish"
         ELSE /\ buf_ptr' = [buf_ptr EXCEPT ![i] = "MAP_FAILED"]
              /\ mapped' = mapped
              /\ everMapped' = everMapped
              /\ i' = i
              /\ result' = MEMORY_MAPPING_FAILED
              /\ pc' = "ib_finish"
    /\ UNCHANGED <<mainVars, fd, format, buffers, buffer_count, count, retry,
                   capVars, fdstate, devfmt, queued, streaming, unmapCount,
                   freeCount, granted, einval_at, qHist, strHist, closeHist, fmtHist, capHist>>

\* the granted count published instead of the loop index
published_count_mut(idx, cnt) == cnt

\* the pool size init_buffer publishes: the loop index where the loop ended
published_count(idx, cnt) == idx

\* the loop bound taken one too far: i <= count
start_count_mut(bc) == bc + 1

\* start_capture's loop bound: count = dev->buffer_count
start_count(bc) == bc

\* if (NOERROR != result) start the cleanup loop; else publish the table
\* and return NOERROR: init_video_device returns it, main calls do_capture,
\* which enters start_capture (count = dev->buffer_count, i = 0)
ib_finish ==
    /\ pc = "ib_finish"
    /\ IF result # NOERROR
       THEN /\ i' = 0
            /\ pc' = "ib_cleanup"
            /\ UNCHANGED <<buffers, buffer_count, count, ret, result>>
       ELSE /\ buffers' = "table"
            /\ buffer_count' = published_count(i, count)
            /\ ret' = NOERROR
            /\ count' = start_count(published_count(i, count))
            /\ i' = 0
            /\ result' = NOERROR
            /\ pc' = IF start_count(published_count(i, count)) > 0
                     THEN "sc_qbuf" ELSE "sc_streamon"
    /\ retry' = 0
    /\ UNCHANGED <<args, fd, format, buf_ptr, capVars, kernVars, memHist,
                   qHist, strHist, closeHist, fmtHist, capHist>>

\* the entry tested against NULL instead of MAP_FAILED
reads_map_failed_mut(addr, freed) == {addr = "NULL"}

\* the values the test MAP_FAILED == addr can have: reading an entry that
\* was never written, or a table that was freed, yields anything
reads_map_failed(addr, freed) ==
    IF addr = "uninit" \/ freed THEN BOOLEAN ELSE {addr = "MAP_FAILED"}

\* cleanup loop of the failure path: munmap entries up to the first
\* MAP_FAILED one, then free(buf_ptr) and return result
ib_cleanup ==
    /\ pc = "ib_cleanup"
    /\ \E mf \in (IF i < count THEN reads_map_failed(buf_ptr[i], FALSE)
                  ELSE {TRUE}) :
         IF i < count /\ ~mf
         THEN /\ unmapCount' = [unmapCount EXCEPT ![i] = @ + 1]
              /\ mapped' = mapped \ {i}
              /\ buf_ptr' = [buf_ptr EXCEPT ![i] = "NULL"]
              /\ i' = i + 1
              /\ UNCHANGED <<pc, freeCount, ret, count, result>>
         ELSE /\ freeCount' = freeCount + 1
              /\ buf_ptr' = EmptyTable
              /\ ret' = result
              /\ i' = 0
              /\ count' = 0
              /\ result' = NOERROR
              /\ pc' = "cvd_enter"
              /\ UNCHANGED <<unmapCount, mapped>>
    /\ UNCHANGED <<args, fd, format, buffers, buffer_count, retry, capVars,
                   fdstate, devfmt, queued, streaming, everMapped, granted,
                   einval_at, qHist, strHist, closeHist, fmtHist, capHist>>

(***************************************************************************)
(* do_capture (uvccap.c:202-252): start_capture (uvccap.c:603-670), the    *)
(* select / read_frame loop (uvccap.c:254-308), stop_capture               *)
(* (uvccap.c:672-681).  Whatever do_capture returns becomes main's ret and *)
(* main calls close_video_device.                                          *)
(***************************************************************************)

\* the switch (errno) of start_capture: the result it sets, NOERROR for the
\* transient errnos that are retried after usleep
qbuf_errno_code(e) ==
    CASE e = "EINVAL" -> MEMORY_QUEUEING_FAILED
      [] e = "EIO"    -> IO_ERROR
      [] e = "ENOMEM" -> NOERROR
      [] e = "EAGAIN" -> NOERROR
      [] OTHER        -> MEMORY_QUEUEING_FAILED

\* the bound off by one: a sixth attempt
retry_exhausted_mut(r) == r >= MAX_RETRY + 1

\* if (retry >= 5) after the retry loop
retry_exhausted(r) == r >= MAX_RETRY

\* the test made one attempt early: a failure on the fifth attempt counts
\* as exhaustion
result_after_retries_mut(res, r) ==
    IF retry_exhausted(r + 1) THEN MEMORY_QUEUEING_FAILED ELSE res

\* after the retry loop: if (retry >= 5) result = MEMORY_QUEUEING_FAILED,
\* otherwise result is what the switch left
result_after_retries(res, r) ==
    IF retry_exhausted(r) THEN MEMORY_QUEUEING_FAILED ELSE res

\* one pass of the retry loop for buffer i, with what follows when the
\* loop is left: the retry >= 5 test, the next buffer, or the return
sc_qbuf ==
    /\ pc = "sc_qbuf"
    /\ i < count
    /\ ~retry_exhausted(retry)
    /\ attempts' = IF retry = 0 THEN 1 ELSE attempts + 1
    /\ qbufCalls' = TRUE
    /\ \E e \in {"ok", "EINVAL", "EIO", "ENOMEM", "EAGAIN", "EBADF"} :
         /\ last_qbuf_errno' = e
         /\ CASE e = "ok" ->
                   \* break; the retry >= 5 test; the next buffer
                   /\ queued' = queued \cup {i}
                   /\ IF result_after_retries(NOERROR, retry) # NOERROR
                      THEN /\ ret' = result_after_retries(NOERROR, retry)
                           /\ pc' = "cvd_enter"
                           /\ i' = 0
                           /\ count' = 0
                           /\ UNCHANGED <<result, retry>>
                      ELSE /\ i' = i + 1
                           /\ retry' = 0
                           /\ pc' = IF i + 1 < count
                                    THEN "sc_qbuf" ELSE "sc_streamon"
                           /\ UNCHANGED <<ret, count, result>>
              [] e # "ok" /\ qbuf_errno_code(e) # NOERROR ->
                   \* fatal: break out of both loops and return result
                   /\ ret' = result_after_retries(qbuf_errno_code(e), retry)
                   /\ pc' = "cvd_enter"
                   /\ i' = 0
                   /\ count' = 0
                   /\ UNCHANGED <<queued, result, retry>>
              [] OTHER ->
                   \* transient: usleep, ++retry
                   IF retry_exhausted(retry + 1)
                   THEN /\ ret' = result_after_retries(NOERROR, retry + 1)
                        /\ pc' = "cvd_enter"
                        /\ i' = 0
                        /\ retry' = retry + 1
                        /\ count' = 0
                        /\ UNCHANGED <<queued, result>>
                   ELSE /\ retry' = retry + 1
                        /\ UNCHANGED <<pc, ret, i, count, queued, result>>
    /\ UNCHANGED <<args, devVars, capVars, fdstate, devfmt, mapped, streaming,
                   memHist, dqCount, owned, requeue_pending, requeue_failed,
                   wait_failed, strHist, closeHist, fmtHist, files,
                   streamOnOk>>

\* VIDIOC_STREAMON; on success do_capture starts its loop with i = 0
sc_streamon ==
    /\ pc = "sc_streamon"
    /\ streamOnCalls' = streamOnCalls + 1
    /\ attempts' = 0
    /\ \E ok \in BOOLEAN :
         /\ streamOnOk' = ok
         /\ IF ok
            THEN /\ streaming' = TRUE
                 /\ cap_i' = 0
                 /\ ret' = ret
                 /\ pc' = "dc_loop"
            ELSE /\ streaming' = streaming
                 /\ cap_i' = cap_i
                 /\ ret' = VIDEO_DEVICE_STREAMING_FAILED
                 /\ pc' = "cvd_enter"
    /\ i' = 0
    /\ count' = 0
    /\ UNCHANGED <<args, devVars, retry, result, n, errno, isset, buf_index,
                   rf_result, fdstate, devfmt, mapped, queued, memHist,
                   qbufCalls, dqCount, owned, requeue_pending, requeue_failed,
                   wait_failed, streamOffCalls, closeHist, fmtHist,
                   last_qbuf_errno, files>>

\* the loop test taken one too far: i <= count
dc_loop_runs_mut(ci, cnt) == ci <= cnt

\* for (i = 0; i < count; ): whether the loop body is entered
dc_loop_runs(ci, cnt) == ci < cnt

\* the loop test i < count and select(dev->fd + 1, &rfds, NULL, NULL, &tv):
\* a ready descriptor, a timeout (0, descriptor not set), or -1 with an errno
dc_select ==
    /\ pc = "dc_loop"
    /\ IF dc_loop_runs(cap_i, args.cap_count)
       THEN /\ \E out \in {"ready", "timeout", "ETIMEDOUT", "EINTR"} :
                 /\ n' = CASE out = "ready" -> 1
                           [] out = "timeout" -> 0
                           [] OTHER -> 0 - 1
                 /\ errno' = IF out \in {"ETIMEDOUT", "EINTR"} THEN out ELSE "0"
                 /\ isset' = (out = "ready")
            /\ pc' = "dc_check"
       ELSE /\ pc' = "dc_stop"
            /\ UNCHANGED <<n, errno, isset>>
    /\ UNCHANGED <<mainVars, devVars, locVars, cap_i, buf_index, rf_result,
                   kernVars, memHist, qHist, strHist, closeHist, fmtHist, capHist>>

\* whether the loop goes round again without reading a frame
dc_continues(nn, en, set) ==
    IF nn < 0 THEN en = "ETIMEDOUT" ELSE ~set

\* a for loop with ++i as its increment clause
dc_continue_i_mut(ci) == ci + 1

\* the captured-frame counter after continue: for (i = 0; i < count; ) has
\* no increment clause
dc_continue_i(ci) == ci

\* the tests after select: continue, break, or call read_frame
dc_check ==
    /\ pc = "dc_check"
    /\ IF dc_continues(n, errno, isset)
       THEN /\ pc' = "dc_loop"
            /\ cap_i' = dc_continue_i(cap_i)
            /\ wait_failed' = wait_failed
       ELSE IF n < 0
            THEN /\ pc' = "dc_stop"
                 /\ cap_i' = cap_i
                 /\ wait_failed' = TRUE
            ELSE /\ pc' = "rf_dqbuf"
                 /\ cap_i' = cap_i
                 /\ wait_failed' = wait_failed
    /\ n' = 0
    /\ errno' = "0"
    /\ isset' = FALSE
    /\ UNCHANGED <<mainVars, devVars, locVars, buf_index, rf_result, kernVars,
                   memHist, attempts, qbufCalls, dqCount, owned,
                   requeue_pending, requeue_failed, strHist, closeHist, fmtHist, capHist>>

\* read_frame: VIDIOC_DQBUF.  The driver hands back a buffer it owns; the
\* assert on buf.index aborts the program when it fails
rf_dqbuf ==
    /\ pc = "rf_dqbuf"
    /\ \/ \E idx \in queued :
            /\ streaming
            /\ queued' = queued \ {idx}
            /\ buf_index' = idx
            /\ owned' = owned \cup {idx}
            /\ dqCount' = dqCount + 1
            /\ requeue_pending' = TRUE
            /\ rf_result' = NOERROR
            /\ pc' = IF idx < buffer_count THEN "rf_consume" ELSE "abort"
            /\ UNCHANGED result
       \/ /\ result' = MEMORY_DEQUEUEING_FAILED
          /\ pc' = "dc_stop"
          /\ UNCHANGED <<queued, buf_index, owned, dqCount, requeue_pending,
                         rf_result>>
    /\ UNCHANGED <<mainVars, devVars, count, i, retry, cap_i, n, errno, isset,
                   fdstate, devfmt, mapped, streaming, memHist, attempts,
                   qbufCalls, requeue_failed, wait_failed, strHist, closeHist, fmtHist, capHist>>

\* a failed read_frame answered with return result instead of break
dc_after_read_mut(res) == IF res = NOERROR THEN "dc_loop" ELSE "cvd_enter"

\* what do_capture does with read_frame's result: ++i, or break
dc_after_read(res) == IF res = NOERROR THEN "dc_loop" ELSE "dc_stop"

\* the return to do_capture: result = read_frame(...); break unless
\* NOERROR; ++i
rf_return(out) ==
    /\ result' = out
    /\ pc' = dc_after_read(out)
    /\ cap_i' = IF out = NOERROR THEN cap_i + 1 ELSE cap_i
    /\ buf_index' = NoIdx
    /\ rf_result' = NOERROR

\* a return right after a failed file step
returns_before_requeue_mut(res) == res # NOERROR

\* whether read_frame returns right after the file step, before the
\* re-enqueue: it has no such return
returns_before_requeue(res) == FALSE

\* open(path, O_WRONLY | O_CREAT) and, when it succeeds, the write loop
\* over dev->buffers[buf.index] (left when everything is written or a
\* write fails, result untouched) and close of the file
rf_consume ==
    /\ pc = "rf_consume"
    /\ \E e \in {"ok", "EPERM", "EACCES"} :
         LET res == CASE e = "ok"    -> NOERROR
                      [] e = "EPERM" -> NOT_PERMITTED
                      [] OTHER       -> IO_FILE_NOT_CREATED
         IN  /\ files' = IF e = "ok" THEN files \cup {cap_i} ELSE files
             /\ IF returns_before_requeue(res)
                THEN rf_return(res)
                ELSE /\ rf_result' = res
                     /\ pc' = "rf_qbuf"
                     /\ UNCHANGED <<result, cap_i, buf_index>>
    /\ UNCHANGED <<mainVars, devVars, count, i, retry, n, errno, isset,
                   kernVars, memHist, qHist, strHist, closeHist, fmtHist,
                   last_qbuf_errno, streamOnOk>>

\* VIDIOC_QBUF of the dequeued buffer, whatever the file step did, and the
\* return to do_capture
rf_qbuf ==
    /\ pc = "rf_qbuf"
    /\ qbufCalls' = TRUE
    /\ requeue_pending' = FALSE
    /\ \E ok \in BOOLEAN :
         IF ok
         THEN /\ queued' = queued \cup {buf_index}
              /\ owned' = owned \ {buf_index}
              /\ requeue_failed' = requeue_failed
              /\ rf_return(rf_result)
         ELSE /\ queued' = queued
              /\ owned' = owned
              /\ requeue_failed' = TRUE
              /\ rf_return(MEMORY_QUEUEING_FAILED)
    /\ UNCHANGED <<mainVars, devVars, count, i, retry, n, errno, isset,
                   fdstate, devfmt, mapped, streaming, memHist, attempts,
                   dqCount, wait_failed, strHist, closeHist, fmtHist, capHist>>

\* stop_capture: VIDIOC_STREAMOFF, a failure is only warned about; then
\* do_capture returns result and main calls close_video_device
dc_stop ==
    /\ pc = "dc_stop"
    /\ streamOffCalls' = streamOffCalls + 1
    /\ \E ok \in BOOLEAN :
         IF ok
         THEN /\ streaming' = FALSE
              /\ queued' = {}
         ELSE /\ UNCHANGED <<streaming, queued>>
    /\ ret' = result
    /\ result' = NOERROR
    /\ cap_i' = 0
    /\ pc' = "cvd_enter"
    /\ UNCHANGED <<args, devVars, count, i, retry, n, errno, isset, buf_index,
                   rf_result, fdstate, devfmt, mapped, memHist, qHist,
                   streamOnCalls, closeHist, fmtHist, capHist>>

(***************************************************************************)
(* close_video_device (uvccap.c:376-401).  dev is const: neither dev->fd   *)
(* nor dev->buffers is reset.                                              *)
(***************************************************************************)

\* the test inverted: the unmap loop runs only without a table
has_buffers_mut(b) == b = "NULL"

\* if (NULL != dev->buffers)
has_buffers(b) == b # "NULL"

\* the NULL == dev and 0 > dev->fd returns, and the NULL != dev->buffers test
cvd_enter ==
    /\ pc = "cvd_enter"
    /\ closeRuns' = closeRuns + 1
    /\ IF fd < 0
       THEN /\ pc' = "done"
            /\ i' = i
       ELSE IF has_buffers(buffers)
            THEN /\ pc' = "cvd_unmap"
                 /\ i' = 0
            ELSE /\ pc' = "cvd_close"
                 /\ i' = i
    /\ UNCHANGED <<mainVars, devVars, count, retry, result, capVars, kernVars,
                   memHist, qHist, strHist, closeCalls, fmtHist, capHist>>

\* free() of a table already freed is undefined: the allocator aborts the
\* program or the call returns
free_outcomes(frees) == IF frees > 1 THEN {"cvd_close", "abort"} ELSE {"cvd_close"}

\* unmap loop: munmap entries up to the first MAP_FAILED one, then
\* free(dev->buffers)
cvd_unmap ==
    /\ pc = "cvd_unmap"
    /\ \E mf \in (IF i < buffer_count
                  THEN reads_map_failed(buf_ptr[i], freeCount > 0)
                  ELSE {TRUE}) :
         IF i < buffer_count /\ ~mf
         THEN /\ unmapCount' = [unmapCount EXCEPT ![i] = @ + 1]
              /\ mapped' = mapped \ {i}
              /\ i' = i + 1
              /\ UNCHANGED <<pc, freeCount>>
         ELSE /\ freeCount' = freeCount + 1
              /\ pc' \in free_outcomes(freeCount + 1)
              /\ i' = 0
              /\ UNCHANGED <<unmapCount, mapped>>
    /\ UNCHANGED <<mainVars, devVars, count, retry, result, capVars, fdstate,
                   devfmt, queued, streaming, everMapped, granted, einval_at,
                   qHist, strHist, closeHist, fmtHist, capHist>>

\* do { ret = close(dev->fd); } while (ret < 0); : the call, and the return
\* from close_video_device when ret >= 0
cvd_close ==
    /\ pc = "cvd_close"
    /\ closeCalls' = Bump(closeCalls)
    /\ fdstate' = "released"
    /\ \E r \in close_returns(fdstate) :
         pc' = IF r < 0 THEN "cvd_while" ELSE "done"
    /\ UNCHANGED <<mainVars, devVars, locVars, capVars, devfmt, mapped,
                   queued, streaming, memHist, qHist, strHist, closeRuns,
                   fmtHist, capHist>>

\* while (ret < 0) found true: the loop goes round to the next close
cvd_while ==
    /\ pc = "cvd_while"
    /\ pc' = "cvd_close"
    /\ UNCHANGED <<mainVars, devVars, locVars, capVars, kernVars, memHist,
                   qHist, strHist, closeHist, fmtHist, capHist>>

Next ==
    \/ main_parse_args
    \/ ovd_open
    \/ ovd_querycap
    \/ ovd_cropcap
    \/ ovd_enum
    \/ ivd_crop
    \/ ivd_sfmt
    \/ ivd_gfmt
    \/ ib_reqbufs
    \/ ib_malloc
    \/ ib_query
    \/ ib_mmap
    \/ ib_finish
    \/ ib_cleanup
    \/ sc_qbuf
    \/ sc_streamon
    \/ dc_select
    \/ dc_check
    \/ rf_dqbuf
    \/ rf_consume
    \/ rf_qbuf
    \/ dc_stop
    \/ cvd_enter
    \/ cvd_unmap
    \/ cvd_close
    \/ cvd_while

\* one run of main
Spec == Init /\ [][Next]_vars

\* a caller that calls close_video_device once more on the session main
\* has closed
close_again ==
    /\ pc = "done"
    /\ closeRuns = 1
    /\ pc' = "cvd_enter"
    /\ UNCHANGED <<mainVars, devVars, locVars, capVars, kernVars, memHist,
                   qHist, strHist, closeHist, fmtHist, capHist>>

\* one run of main followed by a second close_video_device
SpecReclose == Init /\ [][Next \/ close_again]_vars

\* init_video_device entered on an opened device (descriptor open,
\* VIDIOC_CROPCAP answered) with any app_args_t, the format index not
\* limited to what parse_args lets through
InitDevice ==
    /\ pc = "ivd_crop"
    /\ args \in [pixel_format : FormatIndexes,
                 cap_width    : Widths,
                 cap_height   : {DEF_CAPTURE_HEIGHT},
                 cap_count    : CapCounts]
    /\ ret = NOERROR
    /\ fd = DEV_FD
    /\ format = NoFormat
    /\ buffers = "NULL"
    /\ buffer_count = 0
    /\ buf_ptr = EmptyTable
    /\ count = 0
    /\ i = 0
    /\ retry = 0
    /\ result = NOERROR
    /\ cap_i = 0
    /\ n = 0
    /\ errno = "0"
    /\ isset = FALSE
    /\ buf_index = NoIdx
    /\ rf_result = NOERROR
    /\ fdstate = "open"
    /\ devfmt = DriverDefaultFormat
    /\ mapped = {}
    /\ queued = {}
    /\ streaming = FALSE
    /\ everMapped = {}
    /\ unmapCount = [k \in 0..(MaxGrant - 1) |-> 0]
    /\ freeCount = 0
    /\ granted = NoIdx
    /\ einval_at = NoIdx
    /\ attempts = 0
    /\ qbufCalls = FALSE
    /\ dqCount = 0
    /\ owned = {}
    /\ requeue_pending = FALSE
    /\ requeue_failed = FALSE
    /\ wait_failed = FALSE
    /\ streamOnCalls = 0
    /\ streamOffCalls = 0
    /\ closeCalls = 0
    /\ closeRuns = 0
    /\ cropcap_errno = "ok"
    /\ sfmt_errno = "none"
    /\ sfmt_request = NoFormat
    /\ reqbufs_errno = "none"
    /\ last_qbuf_errno = "none"
    /\ files = {}
    /\ streamOnOk = FALSE

\* init_video_device up to its call of init_buffer or its error return
NextDevice ==
    \/ ivd_crop
    \/ ivd_sfmt
    \/ ivd_gfmt

SpecInitDevice == InitDevice /\ [][NextDevice]_vars

\* a step in which the system call made succeeds: open, the ioctls, malloc,
\* mmap, select, the frame file's open and close(dev->fd) return success
\* (VIDIOC_ENUM_FMT ends its enumeration with EINVAL, VIDIOC_REQBUFS grants
\* at least the REQ_COUNT buffers asked for); select may still time out
EveryCallSucceeds ==
    /\ (pc = "ovd_open") => (fdstate' = "open")
    /\ (pc = "ovd_querycap") => (pc' = "ovd_cropcap")
    /\ (pc = "ovd_cropcap") => (cropcap_errno' = "ok")
    /\ (pc = "ovd_enum") => (pc' # "done")
    /\ (pc = "ivd_crop") => (pc' = "ivd_sfmt")
    /\ (pc = "ivd_sfmt") => (sfmt_errno' = "ok")
    /\ (pc = "ib_reqbufs") => (granted' # NoIdx /\ granted' >= REQ_COUNT)
    /\ (pc = "ib_malloc") => (pc' = "ib_query")
    /\ (pc = "ib_query") => (pc' = "ib_mmap")
    /\ (pc = "ib_mmap") => (i \in mapped')
    /\ (pc = "sc_qbuf") => (last_qbuf_errno' = "ok")
    /\ (pc = "sc_streamon") => streamOnOk'
    /\ (pc = "dc_loop") => (n' >= 0)
    /\ (pc = "rf_dqbuf") => (dqCount' = dqCount + 1)
    /\ (pc = "rf_consume") => (cap_i \in files')
    /\ (pc = "rf_qbuf") => ~requeue_failed'
    /\ (pc = "dc_stop") => ~streaming'
    /\ (pc = "cvd_close") => (pc' = "done")

NextSucceeding == Next /\ EveryCallSucceeds

\* select reports the descriptor readable
FrameReady == dc_select /\ isset'

\* one run of main on a device that answers every call with success and
\* keeps delivering frames: the program keeps taking steps, and a select
\* that is called again and again does not time out forever
SpecFair ==
    /\ Init
    /\ [][NextSucceeding]_vars
    /\ WF_vars(NextSucceeding)
    /\ SF_vars(FrameReady)

\* close(dev->fd) returns 0 and the do/while of close_video_device is left
CloseSucceeds == cvd_close /\ pc' = "done"

\* one run of main in which the program keeps taking steps, and a close
\* that could succeed again and again does succeed at some point
SpecCloseFair ==
    /\ Init
    /\ [][Next]_vars
    /\ WF_vars(Next)
    /\ SF_vars(CloseSucceeds)

(***************************************************************************)
(* Properties.                                                             *)
(***************************************************************************)

\* positions of close_video_device and after it
Closing == pc \in {"cvd_enter", "cvd_unmap", "cvd_close", "cvd_while", "done"}

\* positions between a successful init_buffer and stop_capture
Capturing == pc \in {"sc_qbuf", "sc_streamon", "dc_loop", "dc_check",
                     "rf_dqbuf", "rf_consume", "rf_qbuf", "dc_stop"}

\* C1: whenever main has returned after the device path was opened, the
\* device descriptor has been closed.
C1_ClosedOnEveryExit ==
    (pc = "done" /\ fdstate # "none") => fdstate = "released"

\* C2: a second close_video_device on a closed session is a no-op: during
\* it no munmap, no free of the buffer table and no close of the
\* descriptor is issued.
C2_SecondCloseIsNoOp ==
    [][closeRuns = 2 =>
         /\ unmapCount' = unmapCount
         /\ freeCount' = freeCount
         /\ closeCalls' = closeCalls]_vars

\* C3: when VIDIOC_REQBUFS grants fewer than 2 buffers, setup returns
\* INSUFFICIENT_MEMORY, no mapping was made or is live, and neither
\* VIDIOC_QBUF nor VIDIOC_STREAMON is ever issued.
C3_FewerThanTwoGranted ==
    (granted # NoIdx /\ granted < 2) =>
        /\ ret = INSUFFICIENT_MEMORY
        /\ Closing
        /\ buffers = "NULL"
        /\ mapped = {}
        /\ everMapped = {}
        /\ ~qbufCalls
        /\ streamOnCalls = 0

C3_Witness == pc = "done" /\ granted = 1 /\ closeRuns = 1

\* C4 as claimed: for a granted count N >= 2, a successful init_buffer
\* leaves dev->buffer_count = N with buffers 0..N-1 mapped.
C4_PoolSizeIsGranted ==
    (buffers = "table" /\ granted >= 2) =>
        /\ buffer_count = granted
        /\ everMapped = 0..(granted - 1)

\* C4 as amended: for a granted count N >= 2, a successful init_buffer
\* leaves exactly buffers 0..dev->buffer_count-1 mapped; buffer_count is N
\* when no VIDIOC_QUERYBUF answered EINVAL, and is the index k < N that was
\* answered EINVAL otherwise.
C4_PoolSizeIsMappedPrefix ==
    (buffers = "table" /\ granted >= 2) =>
        /\ everMapped = 0..(buffer_count - 1)
        /\ Capturing => mapped = 0..(buffer_count - 1)
        /\ (einval_at = NoIdx) => buffer_count = granted
        /\ (einval_at # NoIdx) =>
              (buffer_count = einval_at /\ buffer_count < granted)

C4_Witness ==
    /\ pc = "sc_qbuf"
    /\ granted = 3
    /\ buffer_count = 3
    /\ mapped = {0, 1, 2}

\* C5: a successful init_buffer leaves a pool of at least 2 mapped buffers.
C5_PoolHasTwoBuffers ==
    (buffers = "table") => (buffer_count >= 2 /\ Cardinality(everMapped) >= 2)

\* C6: when init_buffer fails after mapping k buffers, each of them was
\* unmapped exactly once, nothing else was unmapped, dev->buffers is NULL,
\* and this stays so through close_video_device.
C6_FailureUnmapsOnce ==
    /\ (pc = "ib_cleanup") =>
          /\ buffers = "NULL"
          /\ \A k \in DOMAIN unmapCount :
                /\ unmapCount[k] <= 1
                /\ (unmapCount[k] = 1) => (k \in everMapped /\ k \notin mapped)
    /\ (buffers = "NULL" /\ freeCount > 0) =>
          /\ ret \in {VIDEO_DEVICE_QUERY_BUFFER_FAILED, MEMORY_MAPPING_FAILED}
          /\ mapped = {}
          /\ \A k \in DOMAIN unmapCount :
                unmapCount[k] = IF k \in everMapped THEN 1 ELSE 0

C6_Witness ==
    /\ pc = "done"
    /\ closeRuns = 1
    /\ freeCount = 1
    /\ ret = MEMORY_MAPPING_FAILED
    /\ everMapped = {0}
    /\ unmapCount[0] = 1

\* C7: a dequeued buffer is handed to VIDIOC_QBUF before read_frame returns,
\* whatever the file step did; a dequeue happens only while the application
\* owns no buffer and no re-enqueue has failed; the application never owns
\* more than one buffer.
C7_RequeueBeforeNextDequeue ==
    /\ [](requeue_pending => pc \in {"rf_consume", "rf_qbuf"})
    /\ [](Cardinality(owned) <= 1)
    /\ [][dqCount' # dqCount => (owned = {} /\ ~requeue_failed)]_vars

\* the file could not be created, the buffer was enqueued again
C7_Witness ==
    /\ pc = "dc_stop"
    /\ result = NOT_PERMITTED
    /\ dqCount = 2
    /\ owned = {}
    /\ ~requeue_failed

\* select reported no ready descriptor
WaitTimedOut ==
    pc = "dc_check" /\ (n = 0 \/ (n < 0 /\ errno = "ETIMEDOUT"))

\* C8: an iteration whose select timed out changes neither the
\* captured-frame counter nor the number of dequeues and goes round again;
\* the counter advances by one at a time, and only on the return of a
\* read_frame whose dequeue succeeded.
C8_TimeoutKeepsCounter ==
    /\ [][WaitTimedOut =>
            (cap_i' = cap_i /\ dqCount' = dqCount /\ pc' = "dc_loop")]_vars
    /\ [][cap_i' > cap_i =>
            /\ cap_i' = cap_i + 1
            /\ pc = "rf_qbuf"
            /\ buf_index # NoIdx
            /\ dqCount = cap_i + 1]_vars

C8_Witness == WaitTimedOut /\ cap_i = 1 /\ args.cap_count = 2

\* C9: no buffer gets more than 5 VIDIOC_QBUF attempts in start_capture;
\* while attempts remain start_capture goes on without an error; after 5
\* transient failures it has returned MEMORY_QUEUEING_FAILED and
\* VIDIOC_STREAMON is never issued.
C9_FiveAttempts ==
    /\ attempts <= 5
    /\ (pc = "sc_qbuf") =>
          /\ retry <= 4
          /\ (retry > 0) => (attempts = retry)
          /\ ret = NOERROR
    /\ (retry >= 5) =>
          /\ attempts = 5
          /\ ret = MEMORY_QUEUEING_FAILED
          /\ Closing
          /\ streamOnCalls = 0

\* three transient failures, then the fourth attempt enqueued the last buffer
C9_Witness ==
    /\ pc = "sc_streamon"
    /\ attempts = 4
    /\ queued = 0..(buffer_count - 1)
    /\ buffer_count >= 2

\* C10: a capture loop left on a select error other than a timeout makes
\* main return a code different from NOERROR (stated for a run whose pool
\* holds at least 2 buffers, all of them mapped).
C10_WaitErrorReported ==
    (pc = "done" /\ wait_failed /\ buffer_count >= 2) => ret # NOERROR


\* C11: a VIDIOC_CROPCAP rejected with EINVAL is not an error:
\* open_video_device does not return VIDEO_DEVICE_NOCROPCAPS for it, it goes
\* on to the format enumeration; only another errno gives that code.
C11_CropcapEinvalTolerated ==
    /\ (cropcap_errno = "EINVAL") => ret # VIDEO_DEVICE_NOCROPCAPS
    /\ (ret = VIDEO_DEVICE_NOCROPCAPS) => cropcap_errno \notin {"ok", "EINVAL"}

\* C12: once init_video_device has succeeded, dev->format is the format a
\* VIDIOC_G_FMT reports (the driver's current format), also when
\* VIDIOC_S_FMT failed with an errno other than EBUSY and EINVAL (stated
\* for a format index of the table and a pool of at least 2 buffers).
C12_FormatIsDriverFormat ==
    (/\ buffers = "table"
     /\ buffer_count >= MIN_BUFFERS
     /\ args.pixel_format \in 0..(NUMBER_OF_SUPPORTED_PIXEL_FORMATS - 1))
        => format = devfmt


\* C13: for every format index >= 8 to_v4l2_pixel_format returns table
\* entry 3 (YUYV), for an index in 0..7 the table entry of that index; with
\* an index >= 8 init_video_device fails only on a failed ioctl.
C13_IndexToPixelFormat ==
    (sfmt_errno # "none") =>
        /\ (args.pixel_format >= NUMBER_OF_SUPPORTED_PIXEL_FORMATS) =>
              /\ sfmt_request.pixelformat = PIXEL_FORMATS[3]
              /\ sfmt_request.pixelformat = "YUYV"
              /\ (ret # NOERROR) => sfmt_errno \in {"EBUSY", "EINVAL"}
        /\ (args.pixel_format \in 0..(NUMBER_OF_SUPPORTED_PIXEL_FORMATS - 1)) =>
              sfmt_request.pixelformat = PIXEL_FORMATS[args.pixel_format]

\* index 9 was given, YUYV was requested and applied, init_buffer is entered
C13_Witness ==
    /\ args.pixel_format = NUMBER_OF_SUPPORTED_PIXEL_FORMATS + 1
    /\ pc = "ib_reqbufs"
    /\ sfmt_errno = "ok"
    /\ format.pixelformat = "YUYV"
    /\ ret = NOERROR


\* C14: once VIDIOC_STREAMON has succeeded, every way the capture loop ends
\* leads to exactly one VIDIOC_STREAMOFF attempt, made before
\* close_video_device is entered; stop_capture leaves do_capture's result
\* as the loop left it, and also after a failed VIDIOC_STREAMOFF the
\* buffers are unmapped before the descriptor is closed and main returns
\* only with the descriptor closed.
C14_StopThenClose ==
    /\ [](/\ streamOffCalls <= 1
          /\ (streamOffCalls = 1) => streamOnOk
          /\ (streamOnOk /\ Closing) => streamOffCalls = 1
          /\ (streamOnOk /\ closeCalls > 0) =>
                (mapped = {} /\ fdstate = "released")
          /\ (streamOnOk /\ pc = "done") =>
                (closeRuns = 1 /\ closeCalls > 0))
    /\ [][(pc = "dc_stop") => (ret' = result /\ pc' = "cvd_enter")]_vars

\* VIDIOC_STREAMOFF failed after a frame was captured; the run ended with
\* the pool unmapped and the descriptor closed
C14_Witness ==
    /\ pc = "done"
    /\ streamOnOk
    /\ streaming
    /\ streamOffCalls = 1
    /\ dqCount >= 1
    /\ ret = NOERROR
    /\ buffer_count >= MIN_BUFFERS
    /\ mapped = {}
    /\ fdstate = "released"


\* C15: on a device that answers every call with success and keeps making
\* frames ready, main returns; for arguments parse_args accepts and a frame
\* count N it has then dequeued max(N, 0) frames, created the files of
\* indices 0..N-1, returns NOERROR, and no buffer is mapped and the
\* descriptor is closed.
C15_CaptureTerminates ==
    /\ <>(pc = "done")
    /\ []((pc = "done" /\ ~parse_args_rejects(args)) =>
            /\ dqCount = (IF args.cap_count > 0 THEN args.cap_count ELSE 0)
            /\ files = 0..(args.cap_count - 1)
            /\ ret = NOERROR
            /\ mapped = {}
            /\ everMapped # {}
            /\ fdstate = "released")

\* a capture of 2 frames has ended
C15_Witness ==
    /\ pc = "done"
    /\ args.cap_count = 2
    /\ dqCount = 2
    /\ files = {0, 1}
    /\ ret = NOERROR
    /\ mapped = {}
    /\ fdstate = "released"


\* C16: in start_capture a VIDIOC_QBUF that fails with EINVAL or EIO is
\* fatal at once: main's result is MEMORY_QUEUEING_FAILED for EINVAL and
\* IO_ERROR for EIO, also when it was the fifth attempt for the buffer;
\* the program is in close_video_device, no VIDIOC_STREAMON was issued,
\* and from then on no VIDIOC_QBUF or VIDIOC_STREAMON is issued.
C16_FatalEnqueueErrors ==
    /\ []((last_qbuf_errno = "EINVAL") =>
            (ret = MEMORY_QUEUEING_FAILED /\ Closing /\ streamOnCalls = 0))
    /\ []((last_qbuf_errno = "EIO") =>
            (ret = IO_ERROR /\ Closing /\ streamOnCalls = 0))
    /\ [][(last_qbuf_errno \in {"EINVAL", "EIO"}) =>
            UNCHANGED <<last_qbuf_errno, attempts, queued, streamOnCalls>>]_vars

\* the fifth attempt for a buffer failed with EIO and main returned IO_ERROR
C16_Witness ==
    /\ pc = "done"
    /\ last_qbuf_errno = "EIO"
    /\ attempts = MAX_RETRY
    /\ ret = IO_ERROR
    /\ streamOnCalls = 0


\* C17: no entry is unmapped more than once and none whose mmap did not
\* succeed; when close_video_device closes the descriptor of a session
\* whose setup succeeded, every buffer whose mmap succeeded has been
\* unmapped exactly once; every munmap is made while the descriptor is
\* open and before any close of it.
C17_TeardownUnmaps ==
    /\ [](\A k \in DOMAIN unmapCount :
            /\ unmapCount[k] <= 1
            /\ (unmapCount[k] = 1) => (k \in everMapped))
    /\ []((buffers = "table" /\ closeCalls > 0) =>
            /\ mapped = {}
            /\ \A k \in everMapped : unmapCount[k] = 1)
    /\ [][(unmapCount' # unmapCount) =>
            (fdstate = "open" /\ closeCalls = 0)]_vars

\* a pool of 2 out of 3 granted buffers (VIDIOC_QUERYBUF answered EINVAL for
\* index 2, whose entry holds MAP_FAILED) was torn down
C17_Witness ==
    /\ pc = "done"
    /\ buffers = "table"
    /\ granted = 3
    /\ einval_at = 2
    /\ everMapped = {0, 1}
    /\ \A k \in DOMAIN unmapCount :
          unmapCount[k] = (IF k \in {0, 1} THEN 1 ELSE 0)
    /\ fdstate = "released"


\* C18: the session only moves forward: VIDIOC_REQBUFS is issued only after
\* VIDIOC_S_FMT applied the format; VIDIOC_STREAMON is issued only when
\* every buffer of the pool, and at least 2 of them, is enqueued; select
\* and VIDIOC_DQBUF happen only after VIDIOC_STREAMON succeeded and before
\* VIDIOC_STREAMOFF; once close_video_device has run the descriptor is
\* closed.
C18_ForwardOnly ==
    /\ []((pc = "ib_reqbufs") => (sfmt_errno = "ok"))
    /\ [][(streamOnCalls' # streamOnCalls) =>
            (/\ buffer_count >= MIN_BUFFERS
             /\ queued = 0..(buffer_count - 1))]_vars
    /\ []((pc \in {"dc_check", "rf_dqbuf", "rf_consume", "rf_qbuf"}) =>
            (streamOnOk /\ streamOffCalls = 0))
    /\ []((pc = "done" /\ closeRuns >= 1) => (fdstate = "released"))


\* C19: every index a successful VIDIOC_DQBUF returns was enqueued and is
\* smaller than dev->buffer_count, so the assert in read_frame never fails;
\* when read_frame reads dev->buffers[buf.index] that buffer is mapped,
\* dequeued and not yet enqueued again; no index is at once enqueued in
\* the driver and held by the program.
C19_OwnershipAndIndex ==
    /\ [](pc # "abort")
    /\ [][(dqCount' # dqCount) =>
            (buf_index' \in queued /\ buf_index' < buffer_count)]_vars
    /\ []((pc = "rf_consume") =>
            /\ buf_index \in 0..(buffer_count - 1)
            /\ buf_index \in DOMAIN buf_ptr
            /\ buf_ptr[buf_index] = "mapped"
            /\ buf_index \in mapped
            /\ buf_index \in owned
            /\ buf_index \notin queued
            /\ requeue_pending)
    /\ [](queued \cap owned = {})

\* the second frame: buffer 1 is dequeued and about to be read while
\* buffer 0 is enqueued again
C19_Witness ==
    /\ pc = "rf_consume"
    /\ dqCount = 2
    /\ buffer_count = 2
    /\ buf_index = 1
    /\ owned = {1}
    /\ queued = {0}
    /\ mapped = {0, 1}


\* C20: for every format index outside 0..7, negative ones included, the
\* pixel code init_video_device hands to VIDIOC_S_FMT is the default
\* (table entry 3), and to_v4l2_pixel_format never reads outside
\* PIXEL_FORMATS.
C20_OutOfRangeIndexGetsDefault ==
    (sfmt_errno # "none") =>
        /\ table_index(args.pixel_format) \in DOMAIN PIXEL_FORMATS
        /\ (args.pixel_format \notin 0..(NUMBER_OF_SUPPORTED_PIXEL_FORMATS - 1))
              => (sfmt_request.pixelformat = PIXEL_FORMATS[DEF_PIXEL_FORMAT])


\* C21: once VIDIOC_S_FMT or VIDIOC_REQBUFS has failed, whatever the errno,
\* init_video_device has returned an error code to main (which is in
\* close_video_device or has returned), no buffer table was allocated and
\* no buffer mapped after the failure, and VIDIOC_STREAMON is never
\* issued; in particular a failed VIDIOC_REQBUFS never leaves a pool
\* (stated for a format index of the table).
C21_SetupCallFailureIsAnError ==
    (args.pixel_format \in 0..(NUMBER_OF_SUPPORTED_PIXEL_FORMATS - 1)) =>
    /\ (sfmt_errno \notin {"none", "ok"}) =>
          /\ ret # NOERROR
          /\ Closing
          /\ reqbufs_errno = "none"
          /\ everMapped = {}
          /\ streamOnCalls = 0
    /\ (reqbufs_errno \notin {"none", "ok"}) =>
          /\ ret # NOERROR
          /\ Closing
          /\ buf_ptr = EmptyTable
          /\ buffers = "NULL"
          /\ everMapped = {}
          /\ streamOnCalls = 0


\* C22: close_video_device always terminates: whenever it is entered it
\* returns (main then returns), also when a close(dev->fd) reported a
\* failure.
C22_CloseTerminates == (pc = "cvd_enter") ~> (pc = "done")

=============================================================================
